---------------------------- MODULE Spec2Model ----------------------------
(***************************************************************************)
(* The TV sidebar focus controllers of raelix/nuviostreaming.              *)
(*                                                                         *)
(* The repository holds four TVSidebar components.  Each behaviour of the  *)
(* model is the life of one of them (variant, chosen in Init):             *)
(*   "timer"   src/unnamed/part_000             collapseTimer ref, 200 ms  *)
(*   "modal"   src/src/components/tv/TVSidebar.tsx (second component)      *)
(*             collapseTimer ref + hasSidebarFocus, 150 ms                 *)
(*   "index"   src/unnamed/part_001             focusedIndex, 50 ms check  *)
(*   "static"  src/src/components/tv/TVSidebar.tsx (first component)       *)
(*             focusedIndex set by onFocus only, never collapses           *)
(*                                                                         *)
(* The host platform owns the native focus and reports every change of it  *)
(* as a blur event on the item that lost it and a focus event on the item  *)
(* that got it.  The JavaScript thread handles one event or one expired    *)
(* timer at a time; all timers of one component have the same delay, so    *)
(* they expire in the order in which they were scheduled.                  *)
(*                                                                         *)
(* Beside the sidebar the module holds its collaborators:                  *)
(*   the focus registry  TVFocusProvider / useTVFocus (src/unnamed/part_004)*)
(*   the polling hook    useTVNavigation (src/src/hooks/useTVNavigation.ts)*)
(*   the edge heuristic  useTVSidebarFocus (src/unnamed/part_005)          *)
(* Spec is the sidebar, SpecRegistry the registry under any sequence of    *)
(* calls, SpecHook the hook polling a changing registry, SpecEdge the      *)
(* heuristic under a stream of remote events, SpecBridge the TV event     *)
(* bridge, SpecPoll the hook's interval with its clock.  Each keeps the    *)
(* parts it is not about in the state they are mounted with.               *)
(***************************************************************************)
EXTENDS Integers, Sequences, FiniteSets, TLC

\* ------------------------------------------------------------------ bounds
NumItems == 3        \* routes shown in the sidebar (state.routes.length)
MaxPending == 2      \* timers that may be pending at once
MaxEvents == 2       \* platform events queued for the JavaScript thread
MaxRefs == 2         \* distinct component refs handed to the registry
MaxPresses == 4      \* remote events delivered to the edge heuristic
MaxListeners == 2    \* distinct listener functions handed to the event bridge

\* --------------------------------------------------------------- constants
None == -1           \* JavaScript null (focusedIndex, collapseTimer.current)
StuckWindow == 300   \* timeSinceLastPress < 300
PollPeriod == 500    \* setInterval(updateHandle, 500)
ContentPollPeriod == 1000  \* setInterval(updateDestination, 1000)

Items == 0 .. (NumItems - 1)
Variants == {"timer", "modal", "index", "static"}
TimerIds == 1 .. (MaxPending + 1)
\* the refs of the components handed to registerSidebarItem
Refs == 1 .. MaxRefs
\* the listener functions and the ids they are added under
Listeners == 1 .. MaxListeners
ListenerIds == {"sidebar", "content", "player"}
\* evt.eventType of the remote events delivered
EventTypes == {"left", "right"}
\* an evt that is null or undefined
Absent == "absent"
\* the time between two remote events
Gaps == {1, StuckWindow - 1, StuckWindow}

\* route.name and route.key of state.routes[i]; the names are the ones the
\* components' icon switch knows.
RouteNames == <<"Home", "Library", "Search", "Downloads", "Settings">>
RouteName(i) == RouteNames[i + 1]
RouteKey(i) == <<"key", RouteNames[i + 1]>>
\* the index of the route navigation.navigate(name) makes active
RouteIndex(name) == CHOOSE i \in Items : RouteName(i) = name

VARIABLES
    variant,          \* which TVSidebar component this behaviour is about
    mounted,          \* the component is mounted
    isExpanded,       \* useState isExpanded
    hasSidebarFocus,  \* useState hasSidebarFocus   (modal)
    focusedIndex,     \* useState focusedIndex      (index, static)
    isFocused,        \* useState isFocused of each SidebarItem (timer, modal)
    collapseTimer,    \* collapseTimer.current      (timer, modal)
    timers,           \* pending setTimeout callbacks, in expiry order
    stateIndex,       \* state.index, the active route
    nativeFocus,      \* the item that holds the platform focus, or None
    events,           \* focus/blur events the platform has queued
    stale,            \* history: how many of the pending timers, counted
                      \* from the head, are older than the last focus event
    recent,           \* history: the last two events handled
    last,             \* history: what the last handler did
    provider,         \* a TVFocusProvider is mounted above the consumers
    sidebarRefs,      \* sidebarRefs.current: the Map's entries, in
                      \* insertion order
    sidebarHasFocus,  \* useState sidebarHasFocus of the provider
    views,            \* the refs whose native view exists
    call,             \* history: the last call made through useTVFocus
    isTV,             \* Platform.isTV === true
    hookMounted,      \* the polling component (useTVNavigation unless
                      \* consumer says otherwise): "no", "rendered" (its
                      \* effect has not run yet) or "yes"
    sidebarNodeHandle, \* useTVNavigation: useState sidebarNodeHandle
    intervals,        \* the polling component: the setInterval timers
                      \* active
    now,              \* Date.now()
    lastLeftPressTime, \* useTVSidebarFocus: lastLeftPressTime.current
    leftPressCount,   \* useTVSidebarFocus: leftPressCount.current
    presses,          \* history: the remote events delivered so far
    prevLeft,         \* history: the previous left press
    edge,             \* history: what tvEventHandler did with the last event
    age,              \* the time since the hook's interval was set or fired
    quiet,            \* history: the time since the registry last changed,
                      \* up to one polling period
    sync,             \* history: the call of updateHandle that changed the
                      \* cached handle since the registry last changed:
                      \* "none", "effect" or "tick"
    tvEventHandlerOn, \* event bridge: tvEventHandler is not null
    eventListeners,   \* event bridge: the Map's entries, in insertion order
    delivered,        \* history: the listener calls of the platform event
                      \* just forwarded
    bridgeCall,       \* history: the last call made on the event bridge
    direct,           \* history: enableTVEventHandler or
                      \* disableTVEventHandler has been called from outside
    cleared,          \* history: the registrations the last
                      \* disableTVEventHandler() from outside removed and
                      \* that have not been added again
    consumer,         \* which polling component hookMounted, intervals and
                      \* age are about
    destinations,     \* TVScreenWrapper: useState destinations
    sidebarDestination \* TVFocusableContent: useState sidebarDestination

ctl == <<isExpanded, hasSidebarFocus, focusedIndex, isFocused, collapseTimer>>
sidebar == <<variant, mounted, isExpanded, hasSidebarFocus, focusedIndex,
             isFocused, collapseTimer, timers, stateIndex, nativeFocus, events,
             stale, recent, last>>
registry == <<provider, sidebarRefs, sidebarHasFocus, views, call>>
hook == <<isTV, hookMounted, sidebarNodeHandle, intervals>>
remote == <<now, lastLeftPressTime, leftPressCount, presses, prevLeft, edge>>
poll == <<age, quiet, sync>>
bridge == <<tvEventHandlerOn, eventListeners, delivered, bridgeCall,
            direct, cleared>>
guide == <<consumer, destinations, sidebarDestination>>
vars == <<sidebar, registry, hook, remote, poll, bridge, guide>>

\* ----------------------------------------------------------------- history
\* kind: the handler; index: its item; stale: (timer) a focus event was
\* handled after the timer was scheduled; held: (timer) the items marked
\* focused when it expired; collapsed: (timer) the callback collapsed;
\* calls: the state setters the handler called; emits, navs: the
\* navigation.emit targets and navigation.navigate names of an onPress;
\* wasActive, prevented: the pressed item was active, a listener prevented
\* the default; log: the calls an onPress made on navigation, in order.
NoStep ==
    [kind |-> "init", index |-> None, stale |-> FALSE, held |-> {},
     collapsed |-> FALSE, calls |-> {}, emits |-> <<>>, navs |-> <<>>,
     wasActive |-> FALSE, prevented |-> FALSE, log |-> <<>>]

Step(kind, index, calls) ==
    [NoStep EXCEPT !.kind = kind, !.index = index, !.calls = calls]

Remember(type, index) ==
    LET e == [type |-> type, index |-> index]
    IN  IF Len(recent) < 2 THEN Append(recent, e) ELSE <<recent[2], e>>

\* the items the component shows as focused
Marked ==
    {i \in Items : isFocused[i]} \cup
    (IF focusedIndex = None THEN {} ELSE {focusedIndex})

\* ------------------------------------------------------------------ timers
\* setTimeout returns an id no pending timer has and that is not the id the
\* ref still holds (ids of expired timers are reused only when nothing
\* refers to them any more).
NewTimerId ==
    CHOOSE id \in TimerIds :
        /\ id # collapseTimer
        /\ \A k \in 1 .. Len(timers) : timers[k].id # id
        /\ \A other \in TimerIds :
              (other # collapseTimer /\ \A k \in 1 .. Len(timers) : timers[k].id # other)
                  => id <= other

\* id: what setTimeout returned, None when the caller drops it (the index
\* variant); index: the item the callback closes over, None when it closes
\* over none (the timer and modal variants)
setTimeout(q, id, index) == Append(q, [id |-> id, index |-> index])

clearTimeout(q, id) == SelectSeq(q, LAMBDA t : t.id # id)

\* of the first n timers of q, those that clearTimeout(q, id) leaves
LeftOfFirst(q, n, id) == Cardinality({k \in 1 .. n : q[k].id # id})

\* ---------------------------------------------------------------- registry
\* A registry value m is the Map's entries in insertion order: Map.set on a
\* key the Map holds keeps the key's place, on a new key appends.
Map_has(m, index) == \E k \in 1 .. Len(m) : m[k].index = index

\* undefined and null are both None
Map_get(m, index) ==
    IF Map_has(m, index)
    THEN m[CHOOSE k \in 1 .. Len(m) : m[k].index = index].ref
    ELSE None

Map_set(m, index, ref) ==
    IF Map_has(m, index)
    THEN [k \in 1 .. Len(m) |->
             IF m[k].index = index THEN [index |-> index, ref |-> ref] ELSE m[k]]
    ELSE Append(m, [index |-> index, ref |-> ref])

Map_delete(m, index) == SelectSeq(m, LAMBDA e : e.index # index)

\* Array.from(m.keys())
Map_keys(m) == [k \in 1 .. Len(m) |-> m[k].index]

\* react-native findNodeHandle: the tag of the ref's native view, null when
\* the ref has none
\* mutant: the tag is handed out although the view is gone
findNodeHandle_stale(ref) == 10 * ref + 1

findNodeHandle(ref) == IF ref \in views THEN 10 * ref + 1 ELSE None

\* mutant: set without the test on ref
registerSidebarItem_setsNull(m, index, ref) == Map_set(m, index, ref)

\* mutant: a new entry is pushed without looking for the index
registerSidebarItem_appends(m, index, ref) ==
    IF ref # None THEN Append(m, [index |-> index, ref |-> ref]) ELSE m

registerSidebarItem(m, index, ref) ==
    IF ref # None THEN Map_set(m, index, ref) ELSE m

\* mutant: nothing is deleted
unregisterSidebarItem_keeps(m, index) == m

\* mutant: the whole Map is cleared
unregisterSidebarItem_clears(m, index) ==
    IF Map_has(m, index) THEN <<>> ELSE m

unregisterSidebarItem(m, index) == Map_delete(m, index)

getSidebarNodeHandle(m, index) ==
    LET ref == Map_get(m, index)
    IN  IF ref # None THEN findNodeHandle(ref) ELSE None

\* mutant: the keys are taken in the Map's order, without the sort
getFirstSidebarNodeHandle_unsorted(m) ==
    LET keys == Map_keys(m)
    IN  IF Len(keys) > 0
        THEN LET ref == Map_get(m, keys[1])
             IN  IF ref # None THEN findNodeHandle(ref) ELSE None
        ELSE None

getFirstSidebarNodeHandle(m) ==
    LET sortedKeys == SortSeq(Map_keys(m), LAMBDA a, b : a < b)
    IN  IF Len(sortedKeys) > 0
        THEN LET ref == Map_get(m, sortedKeys[1])
             IN  IF ref # None THEN findNodeHandle(ref) ELSE None
        ELSE None

\* What useTVFocus hands out: the provider's value, or the no-op
\* implementation when no provider is mounted.
useTVFocus_getSidebarNodeHandle(index) ==
    IF provider THEN getSidebarNodeHandle(sidebarRefs, index) ELSE None

useTVFocus_getFirstSidebarNodeHandle ==
    IF provider THEN getFirstSidebarNodeHandle(sidebarRefs) ELSE None

useTVFocus_sidebarHasFocus == IF provider THEN sidebarHasFocus ELSE FALSE

\* op: the function called; index, ref, hasFocus: its arguments; prev: the
\* ref the Map held under index before the call
NoCall ==
    [op |-> "none", index |-> None, ref |-> None, hasFocus |-> FALSE,
     prev |-> None]

\* the registry a provider holds when it mounts
InitRegistry ==
    /\ sidebarRefs = <<>>
    /\ sidebarHasFocus = FALSE
    /\ call = NoCall

\* useTVNavigation before its first render
InitHook ==
    /\ hookMounted = "no"
    /\ sidebarNodeHandle = None
    /\ intervals = 0

\* type: evt.eventType, Absent for an absent evt; gap: (left) the time since
\* the previous left press, None when there was none since the sidebar last
\* had focus; prevDetected: that previous press was detected as stuck;
\* between: (left) the handler was given a press in another direction
\* since that previous left press; ignored: the handler returned at its
\* first line; detected: the handler reached "We're stuck at the left edge".
NoEvent ==
    [type |-> "none", gap |-> None, prevDetected |-> FALSE,
     between |-> FALSE, ignored |-> FALSE, detected |-> FALSE]

\* at: when the press arrived; detected: it was detected as stuck; other:
\* the handler was given a press in another direction since
NoLeft == [at |-> None, detected |-> FALSE, other |-> FALSE]

\* useTVSidebarFocus after its first render.  Date.now() counts from 1970:
\* the first press is further than the window from the initial 0 of
\* lastLeftPressTime.
InitRemote ==
    /\ now = StuckWindow
    /\ lastLeftPressTime = 0
    /\ leftPressCount = 0
    /\ presses = 0
    /\ prevLeft = NoLeft
    /\ edge = NoEvent

\* the clock of a hook whose interval does not run yet
InitPoll ==
    /\ age = 0
    /\ quiet = 0
    /\ sync = "none"

\* op: the function called ("event": the platform called back); id,
\* listener: its arguments; dropped: the registrations the last call on the
\* bridge took out of the Map
NoBridgeCall == [op |-> "none", id |-> "", listener |-> None, dropped |-> {}]

\* the polling component is useTVNavigation; the two focus-guide components
\* before their first render
InitGuide ==
    /\ consumer = "useTVNavigation"
    /\ destinations = <<>>
    /\ sidebarDestination = None

\* the module of the event bridge when it is loaded
InitBridge ==
    /\ tvEventHandlerOn = FALSE
    /\ eventListeners = <<>>
    /\ delivered = <<>>
    /\ bridgeCall = NoBridgeCall
    /\ direct = FALSE
    /\ cleared = {}

\* --------------------------------------------------------------------- Init
\* The values the components mount with.  The static component has no
\* isExpanded: it is always shown at full width (TRUE).
InitSidebar ==
    /\ variant \in Variants
    /\ mounted = TRUE
    /\ isExpanded = (variant \in {"modal", "static"})
    /\ hasSidebarFocus = (variant = "modal")
    /\ stateIndex \in Items
    /\ focusedIndex = (IF variant = "static" THEN stateIndex ELSE None)
    /\ isFocused = [i \in Items |-> FALSE]
    /\ collapseTimer = None
    /\ timers = <<>>
    /\ nativeFocus = None
    /\ events = <<>>
    /\ stale = 0
    /\ recent = <<>>
    /\ last = NoStep

\* the sidebar of a TV build, under a provider nobody has called yet
Init ==
    /\ InitSidebar
    /\ provider = TRUE
    /\ views = Refs
    /\ isTV = TRUE
    /\ InitRegistry /\ InitHook /\ InitRemote /\ InitPoll /\ InitBridge
    /\ InitGuide

\* ----------------------------------------------------------------- platform
\* The native focus moves to item `to` (None: into the content area).  The
\* platform queues a blur for the item that lost it and a focus for the item
\* that got it; which of the two it reports first is the platform's choice.
FocusEvents(from, to, focusFirst) ==
    LET b == IF from = None THEN <<>> ELSE <<[type |-> "blur", index |-> from]>>
        f == IF to = None THEN <<>> ELSE <<[type |-> "focus", index |-> to]>>
    IN  IF focusFirst THEN f \o b ELSE b \o f

MoveFocus ==
    /\ mounted
    /\ Len(events) + 2 <= MaxEvents
    /\ \E to \in Items \cup {None}, focusFirst \in BOOLEAN :
          /\ to # nativeFocus
          /\ nativeFocus' = to
          /\ events' = events \o FocusEvents(nativeFocus, to, focusFirst)
    /\ UNCHANGED <<variant, mounted, ctl, timers, stateIndex, stale, recent, last>>
    /\ UNCHANGED <<registry, hook, remote, poll, bridge, guide>>

HeadIs(type) == mounted /\ events # <<>> /\ Head(events).type = type

\* ------------------------------------------------- SidebarItem (timer, modal)
SidebarItem_handleFocus(i) == isFocused' = [isFocused EXCEPT ![i] = TRUE]

SidebarItem_handleBlur(i) == isFocused' = [isFocused EXCEPT ![i] = FALSE]

\* ------------------------------------------------------------ timer variant
handleItemFocus_timer ==
    /\ timers' = IF collapseTimer # None
                 THEN clearTimeout(timers, collapseTimer) ELSE timers
    /\ collapseTimer' = None
    /\ isExpanded' = TRUE
    /\ UNCHANGED <<hasSidebarFocus, focusedIndex>>

\* mutant: the blur handler collapses at once instead of setting a timer
handleItemBlur_timer_collapsesNow ==
    /\ isExpanded' = FALSE
    /\ UNCHANGED <<timers, collapseTimer, hasSidebarFocus, focusedIndex>>

handleItemBlur_timer ==
    /\ timers' = setTimeout(timers, NewTimerId, None)
    /\ collapseTimer' = NewTimerId
    /\ UNCHANGED <<isExpanded, hasSidebarFocus, focusedIndex>>

\* the callback of the timeout
collapse_timer ==
    /\ isExpanded' = FALSE
    /\ UNCHANGED <<hasSidebarFocus, focusedIndex, isFocused, collapseTimer>>

\* the unmount cleanup effect: the timers left pending
cleanup_timer ==
    IF collapseTimer # None THEN clearTimeout(timers, collapseTimer) ELSE timers

\* ------------------------------------------------------------ modal variant
handleItemFocus_modal ==
    /\ timers' = IF collapseTimer # None
                 THEN clearTimeout(timers, collapseTimer) ELSE timers
    /\ collapseTimer' = None
    /\ hasSidebarFocus' = TRUE
    /\ isExpanded' = TRUE
    /\ UNCHANGED focusedIndex

handleItemBlur_modal ==
    /\ timers' = setTimeout(timers, NewTimerId, None)
    /\ collapseTimer' = NewTimerId
    /\ UNCHANGED <<isExpanded, hasSidebarFocus, focusedIndex>>

\* mutant: the callback forgets setHasSidebarFocus(false)
collapse_modal_keepsFocusFlag ==
    /\ isExpanded' = FALSE
    /\ UNCHANGED <<hasSidebarFocus, focusedIndex, isFocused, collapseTimer>>

collapse_modal ==
    /\ hasSidebarFocus' = FALSE
    /\ isExpanded' = FALSE
    /\ UNCHANGED <<focusedIndex, isFocused, collapseTimer>>

cleanup_modal ==
    IF collapseTimer # None THEN clearTimeout(timers, collapseTimer) ELSE timers

\* ------------------------------------------------------------ index variant
\* mutant: the focus handler forgets setIsExpanded(true)
handleItemFocus_index_noExpand(index) ==
    /\ focusedIndex' = index
    /\ UNCHANGED <<isExpanded, hasSidebarFocus, isFocused, collapseTimer, timers>>

handleItemFocus_index(index) ==
    /\ focusedIndex' = index
    /\ isExpanded' = TRUE
    /\ UNCHANGED <<hasSidebarFocus, isFocused, collapseTimer, timers>>

handleItemBlur_index(index) ==
    /\ timers' = setTimeout(timers, None, index)
    /\ UNCHANGED <<isExpanded, hasSidebarFocus, focusedIndex, isFocused, collapseTimer>>

\* mutant: the callback collapses but returns prev, leaving the item focused
collapse_index_keepsIndex(index) ==
    /\ isExpanded' = IF focusedIndex = index THEN FALSE ELSE isExpanded
    /\ UNCHANGED <<focusedIndex, hasSidebarFocus, isFocused, collapseTimer>>

\* the callback of the timeout: setFocusedIndex(prev => ...) reads the
\* focusedIndex of the moment it runs
collapse_index(index) ==
    /\ focusedIndex' = IF focusedIndex = index THEN None ELSE focusedIndex
    /\ isExpanded' = IF focusedIndex = index THEN FALSE ELSE isExpanded
    /\ UNCHANGED <<hasSidebarFocus, isFocused, collapseTimer>>

\* ----------------------------------------------------------- static variant
onFocus_static(index) ==
    /\ focusedIndex' = index
    /\ UNCHANGED <<isExpanded, hasSidebarFocus, isFocused, collapseTimer, timers>>

\* ------------------------------------------------------------------ onPress
\* The four components hold the same onPress.  navigation.emit returns the
\* event with defaultPrevented as the listeners left it.
\* mutant: the isActive test is dropped
onPress_navigates_ignoresActive(isActive, defaultPrevented) == ~defaultPrevented

\* mutant: the defaultPrevented test is dropped
onPress_navigates_ignoresPrevented(isActive, defaultPrevented) == ~isActive

onPress_navigates(isActive, defaultPrevented) == ~isActive /\ ~defaultPrevented

onPress_emits(index) == <<RouteKey(index)>>

onPress_navigate(index) == <<RouteName(index)>>

\* the argument of navigation.emit
tabPress(index) ==
    [fn |-> "emit", type |-> "tabPress", target |-> RouteKey(index),
     canPreventDefault |-> TRUE]

\* mutant: navigate is called before the event is emitted
onPress_log_navigateFirst(index, navs) ==
    [k \in 1 .. Len(navs) |-> [fn |-> "navigate", name |-> navs[k]]]
        \o <<tabPress(index)>>

\* the calls on navigation in the order the handler makes them: the emit,
\* then the navigate calls (navs)
onPress_log(index, navs) ==
    <<tabPress(index)>>
        \o [k \in 1 .. Len(navs) |-> [fn |-> "navigate", name |-> navs[k]]]

\* mutant: the press also collapses the sidebar
onPress_focusState_collapses ==
    /\ isExpanded' = FALSE
    /\ UNCHANGED <<hasSidebarFocus, focusedIndex, isFocused, collapseTimer, timers>>

\* "Keep sidebar focused after navigation": the handler sets no state
onPress_focusState == UNCHANGED <<ctl, timers>>

onPress(index, defaultPrevented) ==
    LET isActive == stateIndex = index
        navs == IF onPress_navigates(isActive, defaultPrevented)
                THEN onPress_navigate(index) ELSE <<>>
    IN  /\ stateIndex' = IF navs = <<>> THEN stateIndex ELSE RouteIndex(navs[1])
        /\ last' = [Step("press", index, {}) EXCEPT
                        !.emits = onPress_emits(index), !.navs = navs,
                        !.wasActive = isActive, !.prevented = defaultPrevented,
                        !.log = onPress_log(index, navs)]
        /\ onPress_focusState

\* --------------------------------------------------- the JavaScript thread
\* bookkeeping common to the handling of one platform event
Handled(type, index, calls) ==
    /\ events' = Tail(events)
    /\ stale' = IF type = "focus" THEN Len(timers') ELSE stale
    /\ recent' = Remember(type, index)
    /\ last' = Step(type, index, calls)
    /\ UNCHANGED <<variant, mounted, stateIndex, nativeFocus>>
    /\ UNCHANGED <<registry, hook, remote, poll, bridge, guide>>

\* bookkeeping common to the expiry of one timer
Expired(t, calls, collapsed) ==
    /\ timers' = Tail(timers)
    /\ stale' = IF stale > 0 THEN stale - 1 ELSE 0
    /\ last' = [Step("timer", t.index, calls) EXCEPT
                    !.stale = stale > 0, !.held = Marked,
                    !.collapsed = collapsed]
    /\ UNCHANGED <<variant, mounted, stateIndex, nativeFocus, events, recent>>
    /\ UNCHANGED <<registry, hook, remote, poll, bridge, guide>>

Focus_timer ==
    /\ variant = "timer" /\ HeadIs("focus")
    /\ LET i == Head(events).index
       IN  /\ SidebarItem_handleFocus(i)
           /\ handleItemFocus_timer
           /\ Handled("focus", i, {"setIsFocused", "setIsExpanded"})

Blur_timer ==
    /\ variant = "timer" /\ HeadIs("blur")
    /\ Len(timers) < MaxPending
    /\ LET i == Head(events).index
       IN  /\ SidebarItem_handleBlur(i)
           /\ handleItemBlur_timer
           /\ Handled("blur", i, {"setIsFocused"})

Expire_timer ==
    /\ variant = "timer" /\ timers # <<>>
    /\ IF mounted THEN collapse_timer ELSE UNCHANGED ctl
    /\ Expired(Head(timers), {"setIsExpanded"}, TRUE)

Focus_modal ==
    /\ variant = "modal" /\ HeadIs("focus")
    /\ LET i == Head(events).index
       IN  /\ SidebarItem_handleFocus(i)
           /\ handleItemFocus_modal
           /\ Handled("focus", i, {"setIsFocused", "setHasSidebarFocus", "setIsExpanded"})

Blur_modal ==
    /\ variant = "modal" /\ HeadIs("blur")
    /\ Len(timers) < MaxPending
    /\ LET i == Head(events).index
       IN  /\ SidebarItem_handleBlur(i)
           /\ handleItemBlur_modal
           /\ Handled("blur", i, {"setIsFocused"})

Expire_modal ==
    /\ variant = "modal" /\ timers # <<>>
    /\ IF mounted THEN collapse_modal ELSE UNCHANGED ctl
    /\ Expired(Head(timers), {"setHasSidebarFocus", "setIsExpanded"}, TRUE)

Focus_index ==
    /\ variant = "index" /\ HeadIs("focus")
    /\ LET i == Head(events).index
       IN  /\ handleItemFocus_index(i)
           /\ Handled("focus", i, {"setFocusedIndex", "setIsExpanded"})

Blur_index ==
    /\ variant = "index" /\ HeadIs("blur")
    /\ Len(timers) < MaxPending
    /\ LET i == Head(events).index
       IN  /\ handleItemBlur_index(i)
           /\ Handled("blur", i, {})

\* On an unmounted component React drops the update without running the
\* updater; the call of setFocusedIndex is made all the same.
Expire_index ==
    /\ variant = "index" /\ timers # <<>>
    /\ LET t == Head(timers)
           hit == mounted /\ focusedIndex = t.index
       IN  /\ IF mounted THEN collapse_index(t.index) ELSE UNCHANGED ctl
           /\ Expired(t, IF hit THEN {"setFocusedIndex", "setIsExpanded"}
                            ELSE {"setFocusedIndex"}, hit)

Focus_static ==
    /\ variant = "static" /\ HeadIs("focus")
    /\ LET i == Head(events).index
       IN  /\ onFocus_static(i)
           /\ Handled("focus", i, {"setFocusedIndex"})

\* the static SidebarItem passes no onBlur: the event has no handler
Blur_static ==
    /\ variant = "static" /\ HeadIs("blur")
    /\ UNCHANGED <<ctl, timers>>
    /\ Handled("blur", Head(events).index, {})

\* The select key of the remote presses the item that holds the native focus.
Press ==
    /\ mounted
    /\ nativeFocus # None
    /\ \E defaultPrevented \in BOOLEAN : onPress(nativeFocus, defaultPrevented)
    /\ UNCHANGED <<variant, mounted, nativeFocus, events, stale, recent>>
    /\ UNCHANGED <<registry, hook, remote, poll, bridge, guide>>

\* React unmounts the component: the cleanup effects run, the views and the
\* events queued for them are gone.
Unmount ==
    /\ mounted
    /\ mounted' = FALSE
    /\ timers' = CASE variant = "timer" -> cleanup_timer
                   [] variant = "modal" -> cleanup_modal
                   [] OTHER -> timers
    /\ stale' = IF variant \in {"timer", "modal"}
                 THEN LeftOfFirst(timers, stale, collapseTimer) ELSE stale
    /\ events' = <<>>
    /\ nativeFocus' = None
    /\ last' = Step("unmount", None, {})
    /\ UNCHANGED <<variant, ctl, stateIndex, recent>>
    /\ UNCHANGED <<registry, hook, remote, poll, bridge, guide>>

Next ==
    \/ MoveFocus
    \/ Focus_timer \/ Blur_timer \/ Expire_timer
    \/ Focus_modal \/ Blur_modal \/ Expire_modal
    \/ Focus_index \/ Blur_index \/ Expire_index
    \/ Focus_static \/ Blur_static
    \/ Press
    \/ Unmount

Spec == Init /\ [][Next]_vars

TypeOK ==
    /\ variant \in Variants
    /\ mounted \in BOOLEAN
    /\ isExpanded \in BOOLEAN
    /\ hasSidebarFocus \in BOOLEAN
    /\ focusedIndex \in Items \cup {None}
    /\ isFocused \in [Items -> BOOLEAN]
    /\ collapseTimer \in TimerIds \cup {None}
    /\ Len(timers) <= MaxPending
    /\ stateIndex \in Items
    /\ nativeFocus \in Items \cup {None}
    /\ Len(events) <= MaxEvents
    /\ stale \in 0 .. Len(timers)

\* ============================================================ the registry
\* mutant: without a provider the call still reaches a Map
useTVFocus_registerSidebarItem_noContextTest(index, ref) ==
    sidebarRefs' = registerSidebarItem(sidebarRefs, index, ref)

useTVFocus_registerSidebarItem(index, ref) ==
    sidebarRefs' = IF provider
                   THEN registerSidebarItem(sidebarRefs, index, ref)
                   ELSE sidebarRefs

useTVFocus_unregisterSidebarItem(index) ==
    sidebarRefs' = IF provider
                   THEN unregisterSidebarItem(sidebarRefs, index)
                   ELSE sidebarRefs

\* mutant: the setter toggles the flag
useTVFocus_setSidebarHasFocus_toggles(hasFocus) ==
    sidebarHasFocus' = IF provider THEN ~sidebarHasFocus ELSE sidebarHasFocus

\* the provider re-renders with the new state before anything reads it
useTVFocus_setSidebarHasFocus(hasFocus) ==
    sidebarHasFocus' = IF provider THEN hasFocus ELSE sidebarHasFocus

\* Any component under the provider may make any of the three calls.
Register ==
    /\ \E index \in Items, ref \in Refs \cup {None} :
          /\ useTVFocus_registerSidebarItem(index, ref)
          /\ call' = [NoCall EXCEPT !.op = "register", !.index = index,
                          !.ref = ref, !.prev = Map_get(sidebarRefs, index)]
    /\ UNCHANGED <<provider, sidebarHasFocus, views>>
    /\ UNCHANGED <<sidebar, hook, remote, poll, bridge, guide>>

Unregister ==
    /\ \E index \in Items :
          /\ useTVFocus_unregisterSidebarItem(index)
          /\ call' = [NoCall EXCEPT !.op = "unregister", !.index = index,
                          !.prev = Map_get(sidebarRefs, index)]
    /\ UNCHANGED <<provider, sidebarHasFocus, views>>
    /\ UNCHANGED <<sidebar, hook, remote, poll, bridge, guide>>

SetSidebarHasFocus ==
    /\ \E hasFocus \in BOOLEAN :
          /\ useTVFocus_setSidebarHasFocus(hasFocus)
          /\ call' = [NoCall EXCEPT !.op = "setSidebarHasFocus",
                          !.hasFocus = hasFocus]
    /\ UNCHANGED <<provider, sidebarRefs, views>>
    /\ UNCHANGED <<sidebar, hook, remote, poll, bridge, guide>>

\* a sidebar that is mounted and idle: what the collaborators' own
\* specifications hold the sidebar at
InitIdleSidebar == InitSidebar /\ variant = "timer" /\ stateIndex = 0

InitSpecRegistry ==
    /\ InitIdleSidebar
    /\ provider \in BOOLEAN
    /\ views = Refs
    /\ isTV = TRUE
    /\ InitRegistry /\ InitHook /\ InitRemote /\ InitPoll /\ InitBridge
    /\ InitGuide

NextSpecRegistry ==
    \/ Register
    \/ Unregister
    \/ SetSidebarHasFocus

SpecRegistry == InitSpecRegistry /\ [][NextSpecRegistry]_vars

\* ======================================================== useTVNavigation
\* if (sidebarNodeHandle): null and 0 are falsy
Truthy(handle) == handle # None /\ handle # 0

\* mutant: nextFocusLeft is set without the test on the handle
useTVNavigation_tvProps_always(tv, handle) ==
    IF ~tv
    THEN [k \in {} |-> TRUE]
    ELSE [k \in {"isTVSelectable", "nextFocusLeft"} |->
             IF k = "nextFocusLeft" THEN handle ELSE TRUE]

\* the useMemo: the props object as a function from the keys it has
useTVNavigation_tvProps(tv, handle) ==
    IF ~tv
    THEN [k \in {} |-> TRUE]
    ELSE [k \in {"isTVSelectable"} \cup
                 (IF Truthy(handle) THEN {"nextFocusLeft"} ELSE {}) |->
             IF k = "nextFocusLeft" THEN handle ELSE TRUE]

tvProps == useTVNavigation_tvProps(isTV, sidebarNodeHandle)

\* mutant: a handle that is none is not stored
updateHandle_keepsHandle ==
    sidebarNodeHandle' = IF useTVFocus_getFirstSidebarNodeHandle = None
                         THEN sidebarNodeHandle
                         ELSE useTVFocus_getFirstSidebarNodeHandle

\* updateHandle: setSidebarNodeHandle(handle) when it differs; the state the
\* next render has
updateHandle == sidebarNodeHandle' = useTVFocus_getFirstSidebarNodeHandle

\* the hook's component renders for the first time
HookRender ==
    /\ hookMounted = "no"
    /\ hookMounted' = "rendered"
    /\ sidebarNodeHandle' = None
    /\ UNCHANGED <<isTV, intervals>>
    /\ UNCHANGED <<sidebar, registry, remote, poll, bridge, guide>>

\* The effect after the first render.  When updateHandle changes the state
\* the effect runs again after the re-render: its cleanup clears the
\* interval, updateHandle finds nothing new, a new interval is set.
HookEffect ==
    /\ hookMounted = "rendered"
    /\ hookMounted' = "yes"
    /\ IF isTV
       THEN updateHandle /\ intervals' = 1
       ELSE UNCHANGED <<sidebarNodeHandle, intervals>>
    /\ UNCHANGED isTV
    /\ UNCHANGED <<sidebar, registry, remote, poll, bridge, guide>>

\* the interval fires
HookTick ==
    /\ hookMounted = "yes"
    /\ intervals > 0
    /\ updateHandle
    /\ UNCHANGED <<isTV, hookMounted, intervals>>
    /\ UNCHANGED <<sidebar, registry, remote, poll, bridge, guide>>

\* the hook's component unmounts: the effect's cleanup runs
HookUnmount ==
    /\ hookMounted = "yes"
    /\ hookMounted' = "no"
    /\ sidebarNodeHandle' = None
    /\ intervals' = 0
    /\ UNCHANGED isTV
    /\ UNCHANGED <<sidebar, registry, remote, poll, bridge, guide>>

\* a sidebar item hands its ref to the registry, or takes it back
RefRegistered ==
    /\ \E index \in Items, ref \in Refs \cup {None} :
          useTVFocus_registerSidebarItem(index, ref)
    /\ UNCHANGED <<provider, sidebarHasFocus, views, call>>
    /\ UNCHANGED <<sidebar, hook, remote, poll, bridge, guide>>

RefUnregistered ==
    /\ \E index \in Items : useTVFocus_unregisterSidebarItem(index)
    /\ UNCHANGED <<provider, sidebarHasFocus, views, call>>
    /\ UNCHANGED <<sidebar, hook, remote, poll, bridge, guide>>

\* the component behind a ref mounts or unmounts its native view
NativeView ==
    /\ \E ref \in Refs :
          views' = IF ref \in views THEN views \ {ref} ELSE views \cup {ref}
    /\ UNCHANGED <<provider, sidebarRefs, sidebarHasFocus, call>>
    /\ UNCHANGED <<sidebar, hook, remote, poll, bridge, guide>>

InitSpecHook ==
    /\ InitIdleSidebar
    /\ provider \in BOOLEAN
    /\ views = Refs
    /\ isTV \in BOOLEAN
    /\ InitRegistry /\ InitHook /\ InitRemote /\ InitPoll /\ InitBridge
    /\ InitGuide

NextSpecHook ==
    \/ HookRender
    \/ HookEffect
    \/ HookTick
    \/ HookUnmount
    \/ RefRegistered
    \/ RefUnregistered
    \/ NativeView

SpecHook == InitSpecHook /\ [][NextSpecHook]_vars

\* ====================================================== useTVSidebarFocus
\* mutant: only an absent event is ignored
tvEventHandler_ignores_absentOnly(evt) == evt = Absent

\* the handler returns at once
tvEventHandler_ignores(evt) == evt = Absent \/ useTVFocus_sidebarHasFocus

\* mutant: a press at exactly the window's length counts as quick
tvEventHandler_inWindow_inclusive(t) == t - lastLeftPressTime <= StuckWindow

\* timeSinceLastPress < 300
tvEventHandler_inWindow(t) == t - lastLeftPressTime < StuckWindow

\* leftPressCount.current after the increment or the restart, before the
\* test that resets it
tvEventHandler_count(t) ==
    IF tvEventHandler_inWindow(t) THEN leftPressCount + 1 ELSE 1

\* the handler reaches the branch "stuck at the left edge"
tvEventHandler_stuck(evt, t) ==
    /\ ~tvEventHandler_ignores(evt)
    /\ evt = "left"
    /\ tvEventHandler_inWindow(t)
    /\ tvEventHandler_count(t) >= 2

\* mutant: the count is not reset in the stuck branch
tvEventHandler_noReset(evt, t) ==
    IF ~tvEventHandler_ignores(evt) /\ evt = "left"
    THEN /\ leftPressCount' = tvEventHandler_count(t)
         /\ lastLeftPressTime' = t
    ELSE UNCHANGED <<leftPressCount, lastLeftPressTime>>

\* The handler for an event delivered at time t.  In the stuck branch it
\* reads getFirstSidebarNodeHandle() and does nothing with it: no focus is
\* requested and no state of the sidebar or of the registry is set.
tvEventHandler(evt, t) ==
    IF ~tvEventHandler_ignores(evt) /\ evt = "left"
    THEN /\ leftPressCount' = IF tvEventHandler_stuck(evt, t)
                              THEN 0 ELSE tvEventHandler_count(t)
         /\ lastLeftPressTime' = t
    ELSE UNCHANGED <<leftPressCount, lastLeftPressTime>>

\* The remote delivers an event, some time after the one before.
TVEvent ==
    /\ presses < MaxPresses
    /\ \E evt \in EventTypes \cup {Absent}, gap \in Gaps :
          LET t == now + gap
              left == evt = "left"
          IN  /\ now' = t
              /\ presses' = presses + 1
              /\ IF isTV THEN tvEventHandler(evt, t)
                          ELSE UNCHANGED <<leftPressCount, lastLeftPressTime>>
              /\ prevLeft' =
                    IF ~left
                    THEN [prevLeft EXCEPT !.other =
                             @ \/ (prevLeft.at # None /\ evt \in EventTypes
                                      /\ ~tvEventHandler_ignores(evt))]
                    ELSE IF useTVFocus_sidebarHasFocus THEN NoLeft
                    ELSE [at |-> t,
                          detected |-> isTV /\ tvEventHandler_stuck(evt, t),
                          other |-> FALSE]
              /\ edge' = [type |-> evt,
                          gap |-> IF left /\ prevLeft.at # None
                                  THEN t - prevLeft.at ELSE None,
                          prevDetected |-> left /\ prevLeft.detected,
                          between |-> left /\ prevLeft.other,
                          ignored |-> tvEventHandler_ignores(evt),
                          detected |-> isTV /\ tvEventHandler_stuck(evt, t)]
    /\ UNCHANGED <<sidebar, registry, hook, poll, bridge, guide>>

\* the shared flag is set by whoever tracks the sidebar's focus
FocusFlagSet ==
    /\ \E hasFocus \in BOOLEAN :
          /\ useTVFocus_setSidebarHasFocus(hasFocus)
          /\ prevLeft' = IF hasFocus THEN NoLeft ELSE prevLeft
    /\ UNCHANGED <<provider, sidebarRefs, views, call>>
    /\ UNCHANGED <<now, lastLeftPressTime, leftPressCount, presses, edge>>
    /\ UNCHANGED <<sidebar, hook, poll, bridge, guide>>

\* any of the four sidebars at mount, on a TV, under a provider
InitSpecEdge ==
    /\ InitSidebar /\ stateIndex = 0
    /\ provider = TRUE
    /\ views = Refs
    /\ isTV = TRUE
    /\ InitRegistry /\ InitHook /\ InitRemote /\ InitPoll /\ InitBridge
    /\ InitGuide

NextSpecEdge ==
    \/ TVEvent
    \/ FocusFlagSet

SpecEdge == InitSpecEdge /\ [][NextSpecEdge]_vars

\* ========================================================= the event bridge
\* eventListeners is a Map from id to listener: its entries are held like
\* those of sidebarRefs, the id as index and the listener as ref.
\* the registrations of a Map, as a set
Registrations(m) ==
    {[id |-> m[k].index, listener |-> m[k].ref] : k \in 1 .. Len(m)}

\* mutant: only the first listener is called
forEachListener_firstOnly(m) ==
    [k \in 1 .. (IF m = <<>> THEN 0 ELSE 1) |->
        [id |-> m[k].index, listener |-> m[k].ref]]

\* eventListeners.forEach(listener => listener(evt)): the calls made, in
\* the Map's order
forEachListener(m) ==
    [k \in 1 .. Len(m) |-> [id |-> m[k].index, listener |-> m[k].ref]]

\* tvEventHandler after enableTVEventHandler()
enableTVEventHandler(on) == IF ~isTV \/ on THEN on ELSE TRUE

\* mutant: only the platform subscription is dropped
disableTVEventHandler_keepsListeners ==
    /\ tvEventHandlerOn' = FALSE
    /\ UNCHANGED eventListeners

disableTVEventHandler ==
    /\ tvEventHandlerOn' = FALSE
    /\ eventListeners' = <<>>

\* mutant: the listener is added beside the one the id has
addTVEventListener_appends(id, listener) ==
    /\ eventListeners' =
          Append(eventListeners, [index |-> id, ref |-> listener])
    /\ tvEventHandlerOn' = IF ~tvEventHandlerOn
                           THEN enableTVEventHandler(tvEventHandlerOn)
                           ELSE tvEventHandlerOn

\* mutant: the handler is not enabled by an add
addTVEventListener_noEnable(id, listener) ==
    /\ eventListeners' = Map_set(eventListeners, id, listener)
    /\ UNCHANGED tvEventHandlerOn

addTVEventListener(id, listener) ==
    /\ eventListeners' = Map_set(eventListeners, id, listener)
    /\ tvEventHandlerOn' = IF ~tvEventHandlerOn
                           THEN enableTVEventHandler(tvEventHandlerOn)
                           ELSE tvEventHandlerOn

removeTVEventListener(id) ==
    LET left == Map_delete(eventListeners, id)
    IN  IF Len(left) = 0
        THEN disableTVEventHandler
        ELSE eventListeners' = left /\ UNCHANGED tvEventHandlerOn

\* the registrations a call took out of the Map
Dropped == Registrations(eventListeners) \ Registrations(eventListeners')

AddListener ==
    /\ \E id \in ListenerIds, listener \in Listeners :
          /\ addTVEventListener(id, listener)
          /\ bridgeCall' = [op |-> "add", id |-> id, listener |-> listener,
                            dropped |-> Dropped]
          /\ cleared' = cleared \ {[id |-> id, listener |-> listener]}
    /\ delivered' = <<>>
    /\ UNCHANGED direct
    /\ UNCHANGED <<sidebar, registry, hook, remote, poll, guide>>

RemoveListener ==
    /\ \E id \in ListenerIds :
          /\ removeTVEventListener(id)
          /\ bridgeCall' = [NoBridgeCall EXCEPT !.op = "remove", !.id = id,
                                                !.dropped = Dropped]
    /\ delivered' = <<>>
    /\ UNCHANGED <<direct, cleared>>
    /\ UNCHANGED <<sidebar, registry, hook, remote, poll, guide>>

Enable ==
    /\ tvEventHandlerOn' = enableTVEventHandler(tvEventHandlerOn)
    /\ bridgeCall' = [NoBridgeCall EXCEPT !.op = "enable"]
    /\ delivered' = <<>>
    /\ direct' = TRUE
    /\ UNCHANGED <<eventListeners, cleared>>
    /\ UNCHANGED <<sidebar, registry, hook, remote, poll, guide>>

Disable ==
    /\ disableTVEventHandler
    /\ bridgeCall' = [NoBridgeCall EXCEPT !.op = "disable", !.dropped = Dropped]
    /\ delivered' = <<>>
    /\ direct' = TRUE
    /\ cleared' = Registrations(eventListeners)
    /\ UNCHANGED <<sidebar, registry, hook, remote, poll, guide>>

\* The platform calls the callback given to tvEventHandler.enable.  The
\* listeners run to their end one after the other; none of them calls the
\* bridge while the event is forwarded.
PlatformEvent ==
    /\ tvEventHandlerOn
    /\ delivered' = forEachListener(eventListeners)
    /\ bridgeCall' = [NoBridgeCall EXCEPT !.op = "event",
                                          !.dropped = bridgeCall.dropped]
    /\ UNCHANGED <<tvEventHandlerOn, eventListeners, direct, cleared>>
    /\ UNCHANGED <<sidebar, registry, hook, remote, poll, guide>>

InitSpecBridge ==
    /\ InitIdleSidebar
    /\ provider = TRUE
    /\ views = Refs
    /\ isTV \in BOOLEAN
    /\ InitRegistry /\ InitHook /\ InitRemote /\ InitPoll /\ InitBridge
    /\ InitGuide

NextSpecBridge ==
    \/ AddListener
    \/ RemoveListener
    \/ Enable
    \/ Disable
    \/ PlatformEvent

SpecBridge == InitSpecBridge /\ [][NextSpecBridge]_vars

\* ================================================= the hook's polling clock
\* Time passes in steps of half a polling period.
TimeStep == PollPeriod \div 2

\* updateHandle as the effect and the interval call it, and which of the two
\* changed the state
updateHandle_from(caller) ==
    /\ updateHandle
    /\ sync' = IF sidebarNodeHandle' # sidebarNodeHandle THEN caller ELSE sync

\* The effect after the first render: updateHandle(), then
\* setInterval(updateHandle, 500).
PollEffect ==
    /\ hookMounted = "rendered"
    /\ isTV
    /\ hookMounted' = "yes"
    /\ updateHandle_from("effect")
    /\ intervals' = 1
    /\ age' = 0
    /\ UNCHANGED <<isTV, quiet>>
    /\ UNCHANGED <<sidebar, registry, remote, bridge, guide>>

\* The interval fires when its period has passed.  When updateHandle changes
\* the state the effect runs again after the re-render and sets a new
\* interval; when it does not the interval starts its next period.
PollTick ==
    /\ hookMounted = "yes"
    /\ intervals > 0
    /\ age = PollPeriod
    /\ updateHandle_from("tick")
    /\ age' = 0
    /\ UNCHANGED <<isTV, hookMounted, intervals, quiet>>
    /\ UNCHANGED <<sidebar, registry, remote, bridge, guide>>

\* Time passes: never past the moment the interval is due, and not between
\* a render and its effect.
PollAdvance ==
    /\ hookMounted # "rendered"
    /\ intervals > 0 => age + TimeStep <= PollPeriod
    /\ age' = IF intervals > 0 THEN age + TimeStep ELSE age
    /\ quiet' = IF quiet + TimeStep <= PollPeriod
                THEN quiet + TimeStep ELSE PollPeriod
    /\ UNCHANGED sync
    /\ UNCHANGED <<sidebar, registry, hook, remote, bridge, guide>>

\* the call changed the Map
Changed == sidebarRefs' # sidebarRefs

\* a sidebar item hands its ref to the registry, or takes it back
PollRegistered ==
    /\ \E index \in Items, ref \in Refs \cup {None} :
          useTVFocus_registerSidebarItem(index, ref)
    /\ UNCHANGED <<provider, sidebarHasFocus, views, call, age>>
    /\ quiet' = IF Changed THEN 0 ELSE quiet
    /\ sync' = IF Changed THEN "none" ELSE sync
    /\ UNCHANGED <<sidebar, hook, remote, bridge, guide>>

PollUnregistered ==
    /\ \E index \in Items : useTVFocus_unregisterSidebarItem(index)
    /\ UNCHANGED <<provider, sidebarHasFocus, views, call, age>>
    /\ quiet' = IF Changed THEN 0 ELSE quiet
    /\ sync' = IF Changed THEN "none" ELSE sync
    /\ UNCHANGED <<sidebar, hook, remote, bridge, guide>>

\* the hook's component renders for the first time
PollRender ==
    /\ hookMounted = "no"
    /\ hookMounted' = "rendered"
    /\ sidebarNodeHandle' = None
    /\ sync' = "none"
    /\ UNCHANGED <<isTV, intervals, age, quiet>>
    /\ UNCHANGED <<sidebar, registry, remote, bridge, guide>>

\* the hook's component unmounts: the effect's cleanup runs
PollUnmount ==
    /\ hookMounted = "yes"
    /\ hookMounted' = "no"
    /\ sidebarNodeHandle' = None
    /\ intervals' = 0
    /\ sync' = "none"
    /\ UNCHANGED <<isTV, age, quiet>>
    /\ UNCHANGED <<sidebar, registry, remote, bridge, guide>>

InitSpecPoll ==
    /\ InitIdleSidebar
    /\ provider = TRUE
    /\ views = Refs
    /\ isTV = TRUE
    /\ InitRegistry /\ InitHook /\ InitRemote /\ InitPoll /\ InitBridge
    /\ InitGuide

NextSpecPoll ==
    \/ PollRender
    \/ PollEffect
    \/ PollTick
    \/ PollAdvance
    \/ PollUnmount
    \/ PollRegistered
    \/ PollUnregistered

SpecPoll == InitSpecPoll /\ [][NextSpecPoll]_vars

\* ============================================== the polling components
\* TVScreenWrapper, TVFocusableContent and useTVNavigation each cache the
\* registry's first handle in an effect of the same shape.
Consumers == {"TVScreenWrapper", "TVFocusableContent", "useTVNavigation"}

\* the delay given to setInterval
Period(c) == IF c = "TVFocusableContent" THEN ContentPollPeriod ELSE PollPeriod

\* mutant: the cleanup leaves the interval running
clearInterval_leaks(n) == n

\* the intervals active after clearInterval(interval), after setInterval(...)
clearInterval(n) == IF n > 0 THEN n - 1 ELSE n

setInterval(n) == n + 1

\* TVScreenWrapper: if (sidebarHandle) setDestinations([sidebarHandle])
updateDestinations ==
    LET sidebarHandle == useTVFocus_getFirstSidebarNodeHandle
    IN  destinations' = IF Truthy(sidebarHandle)
                        THEN <<sidebarHandle>> ELSE destinations

\* TVFocusableContent: if (nodeHandle && nodeHandle !== sidebarDestination)
\* setSidebarDestination(nodeHandle)
updateDestination ==
    LET nodeHandle == useTVFocus_getFirstSidebarNodeHandle
    IN  sidebarDestination' =
            IF Truthy(nodeHandle) /\ nodeHandle # sidebarDestination
            THEN nodeHandle ELSE sidebarDestination

\* the function the component's effect calls and hands to setInterval
Update(c) ==
    CASE c = "TVScreenWrapper" ->
            updateDestinations /\ UNCHANGED <<sidebarDestination, sidebarNodeHandle>>
      [] c = "TVFocusableContent" ->
            updateDestination /\ UNCHANGED <<destinations, sidebarNodeHandle>>
      [] c = "useTVNavigation" ->
            updateHandle /\ UNCHANGED <<destinations, sidebarDestination>>

\* the cached state is in the effect's dependencies and has changed: the
\* effect runs again after the re-render
Reruns(c) ==
    CASE c = "TVScreenWrapper" -> FALSE
      [] c = "TVFocusableContent" -> sidebarDestination' # sidebarDestination
      [] c = "useTVNavigation" -> sidebarNodeHandle' # sidebarNodeHandle

\* The destination the component hands on: destinations of the
\* TVFocusGuideView (undefined: None), nextFocusLeft of tvProps.
Destination(c) ==
    CASE c = "TVScreenWrapper" ->
            IF Len(destinations) > 0 THEN destinations[1] ELSE None
      [] c = "TVFocusableContent" ->
            IF Truthy(sidebarDestination) THEN sidebarDestination ELSE None
      [] c = "useTVNavigation" ->
            IF Truthy(sidebarNodeHandle) THEN sidebarNodeHandle ELSE None

\* TVFocusableContent on TV: autoFocus={!sidebarHasFocus}
TVFocusableContent_autoFocus == isTV /\ ~useTVFocus_sidebarHasFocus

\* the call changed the state the component caches
Stored ==
    <<sidebarNodeHandle, destinations, sidebarDestination>>'
        # <<sidebarNodeHandle, destinations, sidebarDestination>>

\* the state a component has at its first render, and none once unmounted
FreshState ==
    /\ destinations' = <<>>
    /\ sidebarDestination' = None
    /\ sidebarNodeHandle' = None

\* the component renders for the first time
ConsumerRender ==
    /\ hookMounted = "no"
    /\ hookMounted' = "rendered"
    /\ FreshState
    /\ sync' = "none"
    /\ UNCHANGED <<isTV, intervals, consumer, age, quiet>>
    /\ UNCHANGED <<sidebar, registry, remote, bridge>>

\* the effect after the first render
ConsumerEffect ==
    /\ hookMounted = "rendered"
    /\ hookMounted' = "yes"
    /\ IF isTV
       THEN /\ Update(consumer)
            /\ intervals' = setInterval(intervals)
            /\ age' = 0
       ELSE UNCHANGED <<sidebarNodeHandle, destinations, sidebarDestination,
                        intervals, age>>
    /\ sync' = IF Stored THEN "effect" ELSE sync
    /\ UNCHANGED <<isTV, consumer, quiet>>
    /\ UNCHANGED <<sidebar, registry, remote, bridge>>

\* An interval that is active fires when its period has passed.  When the
\* effect runs again its cleanup clears the interval, its update finds
\* nothing new, and it sets a new interval.
ConsumerTick ==
    /\ intervals > 0
    /\ age = Period(consumer)
    /\ Update(consumer)
    /\ intervals' = IF Reruns(consumer)
                    THEN setInterval(clearInterval(intervals))
                    ELSE intervals
    /\ age' = 0
    /\ sync' = IF Stored THEN "tick" ELSE sync
    /\ UNCHANGED <<isTV, hookMounted, consumer, quiet>>
    /\ UNCHANGED <<sidebar, registry, remote, bridge>>

\* Time passes by half a period: never past the moment an interval is due,
\* and not between a render and its effect.
ConsumerAdvance ==
    LET step == Period(consumer) \div 2
    IN  /\ hookMounted # "rendered"
        /\ intervals > 0 => age + step <= Period(consumer)
        /\ age' = IF intervals > 0 THEN age + step ELSE age
        /\ quiet' = IF quiet + step <= Period(consumer)
                    THEN quiet + step ELSE Period(consumer)
        /\ UNCHANGED sync
        /\ UNCHANGED <<sidebar, registry, hook, remote, bridge, guide>>

\* the component unmounts: the effect's cleanup runs
ConsumerUnmount ==
    /\ hookMounted = "yes"
    /\ hookMounted' = "no"
    /\ FreshState
    /\ intervals' = clearInterval(intervals)
    /\ sync' = "none"
    /\ UNCHANGED <<isTV, consumer, age, quiet>>
    /\ UNCHANGED <<sidebar, registry, remote, bridge>>

\* one of the three components on TV, under a provider
InitSpecGuide ==
    /\ InitIdleSidebar
    /\ provider = TRUE
    /\ views = Refs
    /\ isTV = TRUE
    /\ InitRegistry /\ InitHook /\ InitRemote /\ InitPoll /\ InitBridge
    /\ consumer \in Consumers
    /\ destinations = <<>>
    /\ sidebarDestination = None

NextSpecGuide ==
    \/ ConsumerRender
    \/ ConsumerEffect
    \/ ConsumerTick
    \/ ConsumerAdvance
    \/ ConsumerUnmount
    \/ PollRegistered
    \/ PollUnregistered

SpecGuide == InitSpecGuide /\ [][NextSpecGuide]_vars

\* ================================================================== claims

\* C1: when a blur on item A has scheduled a collapse and the focus event on
\* another item B is handled before that timer expires, the sidebar stays
\* expanded: as long as the blur on A and the focus on B are the last two
\* events handled (B has not blurred), isExpanded is true.
C1_FocusKeepsExpanded ==
    ( /\ mounted
      /\ variant # "static"
      /\ Len(recent) = 2
      /\ recent[1].type = "blur"
      /\ recent[2].type = "focus"
      /\ recent[1].index # recent[2].index )
        => isExpanded

\* C2: once a focus event has been handled, no timer scheduled by an earlier
\* blur collapses the sidebar or clears focusedIndex when it expires.
C2_FocusCancelsPendingCollapse ==
    (mounted /\ last.kind = "timer" /\ last.stale) => ~last.collapsed

\* C3 (as claimed): when the timer of a blur expires and no focus event was
\* handled since the blur, the sidebar is collapsed, focusedIndex is none and
\* hasSidebarFocus is false.
C3_BlurThenExpiryCollapses ==
    (mounted /\ last.kind = "timer" /\ ~last.stale)
        => (~isExpanded /\ focusedIndex = None /\ ~hasSidebarFocus)

\* C3 (amended): the same, unless another item was the focused index when
\* the timer expired (its focus event was handled before the blur); then
\* the index variant leaves isExpanded and focusedIndex as they were.
C3_BlurThenExpiryCollapsesUnlessRefocused ==
    (mounted /\ last.kind = "timer" /\ ~last.stale)
        => IF variant = "index" /\ last.held \notin {{}, {last.index}}
           THEN isExpanded /\ {focusedIndex} = last.held
           ELSE ~isExpanded /\ focusedIndex = None /\ ~hasSidebarFocus

C3_Witness ==
    /\ mounted /\ variant = "index"
    /\ last.kind = "timer" /\ ~last.stale /\ last.collapsed
    /\ last.held = {last.index}
    /\ ~isExpanded /\ focusedIndex = None

\* C4: the delayed check of a blur on item `index` collapses only if the
\* focused index is still `index` when the timer expires; when another item
\* is marked focused at expiry the callback changes nothing.  (The callbacks
\* of the timer and modal variants know no index: there every item marked
\* focused at expiry is another item.)
C4_CollapseOnlyIfStillFocused ==
    (mounted /\ last.kind = "timer")
        => /\ (\E j \in last.held : j # last.index) => ~last.collapsed
           /\ (variant = "index" /\ last.collapsed) => last.held = {last.index}

\* C5: FocusState invariant.  hasSidebarFocus implies isExpanded, a focused
\* index implies isExpanded, and once the focus has left the sidebar and
\* nothing is pending any more, no item is marked focused.
C5_FocusStateInvariant ==
    /\ (variant = "modal" /\ hasSidebarFocus) => isExpanded
    /\ (variant = "index" /\ focusedIndex # None) => isExpanded
    /\ ( /\ mounted /\ recent # <<>>
         /\ nativeFocus = None /\ events = <<>> /\ timers = <<>> )
           => Marked = {}

\* C6: at most one item is marked focused at any instant, and right after a
\* focus event the marked item is the one the event names.
C6_AtMostOneFocused ==
    /\ Cardinality(Marked) <= 1
    /\ (mounted /\ last.kind = "focus") => Marked = {last.index}

\* C7: right after the focus event on item `index` was handled, isExpanded
\* is true, focusedIndex = index and hasSidebarFocus is true, in the
\* variants that have them.
C7_FocusSetsState ==
    last.kind = "focus"
        => /\ variant # "static" => isExpanded
           /\ variant \in {"index", "static"} => focusedIndex = last.index
           /\ variant = "modal" => hasSidebarFocus

C7_Witness ==
    /\ last.kind = "focus" /\ last.index = 1
    /\ variant = "index" /\ focusedIndex = 1 /\ isExpanded
    /\ Len(recent) = 2 /\ recent[1].type = "blur"

\* C8: after the unmount no handler calls a state setter.
C8_NoMutationAfterUnmount == ~mounted => last.calls = {}

\* C9: a press on the active item calls navigation.navigate zero times,
\* prevented or not.
C9_ActivePressNeverNavigates ==
    (last.kind = "press" /\ last.wasActive)
        => (last.navs = <<>> /\ stateIndex = last.index)

C9_Witness ==
    /\ last.kind = "press" /\ last.wasActive /\ ~last.prevented
    /\ last.emits = <<RouteKey(last.index)>>
    /\ last.navs = <<>>

\* C10: a press on a non-active item calls navigation.navigate exactly once,
\* with the item's route name, when no listener prevented the default, and
\* zero times when one did.
C10_InactivePressNavigatesOnce ==
    (last.kind = "press" /\ ~last.wasActive)
        => IF last.prevented
           THEN last.navs = <<>> /\ stateIndex # last.index
           ELSE last.navs = <<RouteName(last.index)>> /\ stateIndex = last.index

C10_Witness ==
    /\ last.kind = "press" /\ ~last.wasActive /\ ~last.prevented
    /\ last.navs = <<RouteName(last.index)>>
    /\ last.index = 2 /\ stateIndex = 2

\* C11: getFirstSidebarNodeHandle returns the handle of the numerically
\* lowest index the registry holds, whatever the order of registration, and
\* none when the registry holds no index.
C11_FirstHandleIsLowestIndex ==
    provider =>
        getFirstSidebarNodeHandle(sidebarRefs) =
            IF sidebarRefs = <<>>
            THEN None
            ELSE LET lowest == CHOOSE i \in Items :
                                   /\ Map_has(sidebarRefs, i)
                                   /\ \A j \in Items :
                                         Map_has(sidebarRefs, j) => i <= j
                 IN  findNodeHandle(Map_get(sidebarRefs, lowest))

\* registered in the order 2, 0, 1: the handle is the one of index 0
C11_Witness ==
    /\ provider
    /\ Map_keys(sidebarRefs) = <<2, 0, 1>>
    /\ Map_get(sidebarRefs, 2) = 1 /\ Map_get(sidebarRefs, 0) = 2
    /\ getFirstSidebarNodeHandle(sidebarRefs) = findNodeHandle(2)
    /\ findNodeHandle(2) # None

\* C12: registerSidebarItem is an idempotent upsert.  The registry holds at
\* most one entry per index; registering (index, ref) a second time changes
\* nothing; after registering, index holds ref and every other index holds
\* what it held.
C12_RegisterIsIdempotentUpsert ==
    /\ \A k1, k2 \in 1 .. Len(sidebarRefs) :
          sidebarRefs[k1].index = sidebarRefs[k2].index => k1 = k2
    /\ \A index \in Items, ref \in Refs :
          LET once == registerSidebarItem(sidebarRefs, index, ref)
          IN  /\ registerSidebarItem(once, index, ref) = once
              /\ Map_get(once, index) = ref
              /\ \A j \in Items \ {index} :
                    Map_get(once, j) = Map_get(sidebarRefs, j)
    /\ (provider /\ call.op = "register" /\ call.ref # None)
          => Map_get(sidebarRefs, call.index) = call.ref

\* another ref was registered for an index that had one, beside other entries
C12_Witness ==
    /\ provider /\ call.op = "register"
    /\ call.prev # None /\ call.ref # None /\ call.prev # call.ref
    /\ Map_get(sidebarRefs, call.index) = call.ref
    /\ Len(sidebarRefs) = 2

\* C13: unregisterSidebarItem is idempotent and total.  On an index the
\* registry does not hold it changes nothing; a second call changes nothing;
\* the entry of every other index stays as it was.
C13_UnregisterIsIdempotent ==
    /\ \A index \in Items :
          LET once == unregisterSidebarItem(sidebarRefs, index)
          IN  /\ unregisterSidebarItem(once, index) = once
              /\ ~Map_has(sidebarRefs, index) => once = sidebarRefs
              /\ \A j \in Items \ {index} :
                    Map_get(once, j) = Map_get(sidebarRefs, j)
    /\ (provider /\ call.op = "unregister" /\ call.prev = None)
          => ~Map_has(sidebarRefs, call.index)

\* an index the registry does not hold was unregistered beside other entries
C13_Witness ==
    /\ provider /\ call.op = "unregister" /\ call.prev = None
    /\ sidebarRefs # <<>>
    /\ ~Map_has(sidebarRefs, call.index)

\* C14: without a provider every operation of useTVFocus is a no-op: the
\* calls change nothing, both handle queries return none and
\* sidebarHasFocus reads false.
C14_NoProviderNoOps ==
    ~provider =>
        /\ sidebarRefs = <<>>
        /\ ~sidebarHasFocus
        /\ ~useTVFocus_sidebarHasFocus
        /\ useTVFocus_getFirstSidebarNodeHandle = None
        /\ \A index \in Items : useTVFocus_getSidebarNodeHandle(index) = None

C14_Witness ==
    /\ ~provider
    /\ call.op = "register" /\ call.ref # None
    /\ useTVFocus_getSidebarNodeHandle(call.index) = None

\* C15: once unregisterSidebarItem(i) has returned, getSidebarNodeHandle(i)
\* returns none as long as i is not registered again, and
\* getFirstSidebarNodeHandle returns none or the handle of an entry the
\* registry holds.
C15_NoStaleHandle ==
    provider =>
        /\ call.op = "unregister" => ~Map_has(sidebarRefs, call.index)
        /\ \A i \in Items :
              ~Map_has(sidebarRefs, i)
                  => getSidebarNodeHandle(sidebarRefs, i) = None
        /\ LET first == getFirstSidebarNodeHandle(sidebarRefs)
           IN  first # None
                   => \E k \in 1 .. Len(sidebarRefs) :
                         findNodeHandle(sidebarRefs[k].ref) = first

\* the lowest index was unregistered: the first handle is another entry's
C15_Witness ==
    /\ provider /\ call.op = "unregister" /\ call.index = 0
    /\ call.prev # None
    /\ getSidebarNodeHandle(sidebarRefs, 0) = None
    /\ getFirstSidebarNodeHandle(sidebarRefs) # None
    /\ getFirstSidebarNodeHandle(sidebarRefs) # findNodeHandle(call.prev)

\* C16: the provider's sidebarHasFocus is false at first, a call of
\* setSidebarHasFocus leaves it at the call's argument, and no other call
\* changes it.
C16_FlagIsLastArgument ==
    /\ ~sidebarHasFocus
    /\ [][provider =>
             IF call'.op = "setSidebarHasFocus"
             THEN sidebarHasFocus' = call'.hasFocus
             ELSE sidebarHasFocus' = sidebarHasFocus]_vars

\* the flag was set and a register call came after
C16_Witness ==
    /\ provider /\ sidebarHasFocus
    /\ call.op = "register" /\ call.ref # None

\* C17: after the focus event of a sidebar item was handled, the registry's
\* sidebarHasFocus flag is true.
C17_FocusSetsRegistryFlag ==
    (mounted /\ last.kind = "focus") => useTVFocus_sidebarHasFocus

\* C18: when the heuristic has detected the stuck-at-edge condition the
\* sidebar is collapsed and neither the sidebar nor the registry says that
\* the sidebar has focus.
C18_DetectionForcesCollapse ==
    edge.detected
        => (~isExpanded /\ ~hasSidebarFocus /\ ~useTVFocus_sidebarHasFocus)

\* C19 (as claimed): of two left presses that arrive while the sidebar does
\* not have focus, the second is detected as stuck-at-edge exactly when it
\* arrives less than 300 time units after the first.
C19_RapidLeftPairDetected ==
    (edge.type = "left" /\ ~edge.ignored /\ edge.gap # None)
        => (edge.detected <=> edge.gap < StuckWindow)

\* C19 (amended): the same, unless the first of the two was itself detected
\* as stuck: the count restarts after a detection, so the press after a
\* detected one is never detected.
C19_RapidLeftPairDetectedOncePerPair ==
    (edge.type = "left" /\ ~edge.ignored /\ edge.gap # None)
        => (edge.detected <=> (edge.gap < StuckWindow /\ ~edge.prevDetected))

\* a left press just inside the window of an undetected one is detected
C19_Witness ==
    /\ edge.type = "left" /\ edge.detected /\ ~edge.prevDetected
    /\ edge.gap = StuckWindow - 1
    /\ leftPressCount = 0 /\ lastLeftPressTime = now

\* C20: on TV tvProps has nextFocusLeft exactly when the cached
\* sidebarNodeHandle is not none, and then it is that handle; off TV tvProps
\* is empty and no interval is started.
C20_TvPropsCarryCachedHandle ==
    /\ isTV => /\ ("nextFocusLeft" \in DOMAIN tvProps) <=> sidebarNodeHandle # None
               /\ "nextFocusLeft" \in DOMAIN tvProps
                     => tvProps["nextFocusLeft"] = sidebarNodeHandle
    /\ ~isTV => /\ DOMAIN tvProps = {}
                /\ intervals = 0
                /\ sidebarNodeHandle = None

C20_Witness ==
    /\ isTV /\ hookMounted = "yes" /\ intervals = 1
    /\ sidebarNodeHandle # None
    /\ sidebarNodeHandle = getFirstSidebarNodeHandle(sidebarRefs)
    /\ DOMAIN tvProps = {"isTVSelectable", "nextFocusLeft"}
    /\ tvProps["nextFocusLeft"] = sidebarNodeHandle

\* C22: whatever the order in which the platform delivers the focus and the
\* blur of a move, once the callbacks are delivered the sidebar is not
\* collapsed while a sidebar item holds the platform focus.
C22_NeverCollapsedWhileFocused ==
    (mounted /\ nativeFocus # None /\ events = <<>>) => isExpanded

C24_AtMostOnePendingTimer ==
    variant \in {"timer", "modal"}
        => /\ Len(timers) <= 1
           /\ timers # <<>> => timers[1].id = collapseTimer

\* C25: in the modal variant isExpanded and hasSidebarFocus are equal.
C25_ExpandedIsHasSidebarFocus ==
    variant = "modal" => isExpanded = hasSidebarFocus

\* the modal sidebar was opened by a focus and collapsed by the blur's timer
C25_Witness ==
    /\ variant = "modal" /\ mounted
    /\ last.kind = "timer" /\ last.collapsed
    /\ ~isExpanded /\ ~hasSidebarFocus
    /\ Len(recent) = 2 /\ recent[1].type = "focus" /\ recent[2].type = "blur"

\* C26: every onPress emits exactly one tabPress event that can be
\* prevented, targeted at the pressed route's key, active item or not, and
\* the emit is the first call: every navigate call comes after it.
C26_EmitOnceBeforeNavigate ==
    last.kind = "press"
        => /\ Len(last.log) >= 1
           /\ last.log[1] = tabPress(last.index)
           /\ \A k \in 2 .. Len(last.log) : last.log[k].fn = "navigate"
           /\ Len(last.log) = 1 + Len(last.navs)

\* a press that navigated: the emit, then the navigate
C26_Witness ==
    /\ last.kind = "press" /\ ~last.wasActive /\ ~last.prevented
    /\ last.log = <<tabPress(last.index),
                     [fn |-> "navigate", name |-> RouteName(last.index)]>>

\* C27: an onPress leaves isExpanded, focusedIndex, hasSidebarFocus, the
\* items' focus marks, collapseTimer.current and the pending timers as they
\* were, whether it navigates or not.
C27_PressKeepsFocusState ==
    [][(last'.kind = "press" /\ last' # last) => UNCHANGED <<ctl, timers>>]_vars

\* a press navigated while the sidebar was expanded with a collapse pending
C27_Witness ==
    /\ last.kind = "press" /\ last.navs # <<>>
    /\ isExpanded /\ timers # <<>>
    /\ nativeFocus = last.index

C29_NullRefIsNoOp ==
    /\ \A index \in Items :
          registerSidebarItem(sidebarRefs, index, None) = sidebarRefs
    /\ \A k \in 1 .. Len(sidebarRefs) : sidebarRefs[k].ref # None
    /\ (call.op = "register" /\ call.ref = None)
          => Map_get(sidebarRefs, call.index) = call.prev

\* null was registered for an index that holds a ref
C29_Witness ==
    /\ provider
    /\ call.op = "register" /\ call.ref = None /\ call.prev # None
    /\ Map_get(sidebarRefs, call.index) = call.prev

C30_HandleConvergesWithinPeriod ==
    (hookMounted = "yes" /\ intervals > 0
        /\ quiet >= PollPeriod /\ age < PollPeriod)
        => sidebarNodeHandle = useTVFocus_getFirstSidebarNodeHandle

\* the last item was unregistered under a mounted hook and a tick of the
\* interval took the cached handle back to none
C30_Witness ==
    /\ hookMounted = "yes"
    /\ quiet >= PollPeriod /\ age < PollPeriod
    /\ sync = "tick"
    /\ sidebarRefs = <<>>
    /\ sidebarNodeHandle = None

\* C34 (as claimed): a left press is not detected as stuck when the handler
\* was given a press in another direction since the previous left press.
C34_OtherDirectionResetsCount ==
    (edge.type = "left" /\ ~edge.ignored /\ edge.between) => ~edge.detected

\* C35: an event that is absent, or that arrives while sidebarHasFocus is
\* true, changes neither leftPressCount nor lastLeftPressTime and is not
\* detected as stuck.
C35_IgnoredEventChangesNothing ==
    [][(presses' = presses + 1
          /\ (edge'.type = Absent \/ useTVFocus_sidebarHasFocus))
        => (UNCHANGED <<leftPressCount, lastLeftPressTime>>
              /\ ~edge'.detected)]_vars

\* a quick left press that arrived while the sidebar had focus left the
\* count of the press before it in place
C35_Witness ==
    /\ edge.type = "left" /\ edge.ignored
    /\ useTVFocus_sidebarHasFocus
    /\ leftPressCount = 1
    /\ now - lastLeftPressTime < StuckWindow

\* C36: after every event leftPressCount is 0 or 1, and 0 after a press
\* that was detected; in a run of quick left presses the press after a
\* detected one is not detected and the one after that is.
C36_CountIsZeroOrOne ==
    /\ leftPressCount \in {0, 1}
    /\ edge.detected => leftPressCount = 0
    /\ (edge.type = "left" /\ ~edge.ignored /\ edge.gap # None
           /\ edge.gap < StuckWindow)
          => (edge.detected <=> leftPressCount = 0)

\* the fourth of four quick left presses is detected, the third was not
C36_Witness ==
    /\ presses = 4
    /\ now = StuckWindow + 4
    /\ edge.type = "left" /\ edge.detected /\ ~edge.prevDetected
    /\ edge.gap = 1
    /\ leftPressCount = 0

\* C37: on TV, as long as only addTVEventListener and removeTVEventListener
\* have been called, the platform handler is enabled exactly when a listener
\* is registered.
C37_EnabledIffListeners ==
    (isTV /\ ~direct) => (tvEventHandlerOn <=> eventListeners # <<>>)

\* the remove of the last listener disabled the handler
C37_Witness ==
    /\ isTV /\ ~direct
    /\ bridgeCall.op = "remove" /\ bridgeCall.dropped # {}
    /\ eventListeners = <<>>
    /\ ~tvEventHandlerOn

\* C38: disableTVEventHandler leaves no listener registered, and an event
\* the platform delivers later calls none of the listeners it removed that
\* has not been added again.
C38_DisableClearsListeners ==
    /\ bridgeCall.op = "disable"
          => (eventListeners = <<>> /\ ~tvEventHandlerOn)
    /\ cleared \cap Registrations(eventListeners) = {}
    /\ \A k \in 1 .. Len(delivered) : delivered[k] \notin cleared

\* two listeners were cleared by a disable; the handler was enabled again
\* and an event called nobody
C38_Witness ==
    /\ bridgeCall.op = "event"
    /\ tvEventHandlerOn
    /\ Cardinality(cleared) = 2
    /\ eventListeners = <<>>
    /\ delivered = <<>>

\* C39: after addTVEventListener(id, listener) the id has that listener and
\* no other; an event calls one listener per id; after
\* removeTVEventListener(id) the id has none.
C39_AddReplacesSameId ==
    /\ bridgeCall.op = "add"
          => /\ Cardinality({k \in 1 .. Len(eventListeners) :
                                eventListeners[k].index = bridgeCall.id}) = 1
             /\ Map_get(eventListeners, bridgeCall.id) = bridgeCall.listener
    /\ bridgeCall.op = "event"
          => \A j, k \in 1 .. Len(delivered) :
                 delivered[j].id = delivered[k].id => j = k
    /\ bridgeCall.op = "remove" => ~Map_has(eventListeners, bridgeCall.id)

\* an add replaced the listener of its id, and the event after it called
\* the new listener and not the old one
C39_Witness ==
    /\ bridgeCall.op = "event"
    /\ \E r \in bridgeCall.dropped :
          \E k \in 1 .. Len(delivered) :
              /\ delivered[k].id = r.id
              /\ delivered[k].listener # r.listener
              /\ \A j \in 1 .. Len(delivered) : delivered[j] # r

\* C31 (as claimed): the destination cached by TVScreenWrapper and by
\* TVFocusableContent is what getFirstSidebarNodeHandle() returns once one
\* of the component's polling periods has passed since the registry last
\* changed and the interval due at that moment has fired; in particular it
\* is none once every sidebar item has been unregistered.
C31_DestinationFollowsRegistry ==
    (consumer \in {"TVScreenWrapper", "TVFocusableContent"}
        /\ hookMounted = "yes" /\ intervals > 0
        /\ quiet >= Period(consumer) /\ age < Period(consumer))
        => Destination(consumer) = useTVFocus_getFirstSidebarNodeHandle

\* C32: each polling component has at most one interval active, none while
\* it is not mounted, and its cached handle is not set while it is not
\* mounted.
C32_AtMostOneInterval ==
    /\ [](intervals <= 1 /\ (hookMounted = "no" => intervals = 0))
    /\ [][hookMounted = "no" /\ hookMounted' = "no"
            => UNCHANGED <<sidebarNodeHandle, destinations,
                           sidebarDestination>>]_vars

\* a tick changed the cached handle of a component whose effect depends on
\* it: the effect ran again and one interval is active
C32_Witness ==
    /\ consumer \in {"TVFocusableContent", "useTVNavigation"}
    /\ hookMounted = "yes"
    /\ sync = "tick"
    /\ intervals = 1
    /\ age = 0
    /\ Destination(consumer) # None

\* C33 (as claimed): on TV TVFocusableContent sets autoFocus exactly when
\* the shared sidebarHasFocus is false, and it does not set it while a
\* sidebar item is focused.
C33_NoAutoFocusWhileSidebarFocused ==
    /\ isTV => (TVFocusableContent_autoFocus <=> ~useTVFocus_sidebarHasFocus)
    /\ (mounted /\ last.kind = "focus" /\ nativeFocus # None)
          => ~TVFocusableContent_autoFocus

=============================================================================
